---- MODULE Spec2Model ----
(***************************************************************************)
(* DenimAI: the LangGraph conversation engine of app/agent (router, agent, *)
(* tools, cart reducer, handoff), the checkpoints it keeps per thread_id,  *)
(* the webhook's background tasks that drive it, and the store database    *)
(* the tools read and write.                                               *)
(***************************************************************************)
EXTENDS Integers, Sequences, FiniteSets, TLC

VARIABLES
    store,      \* SqliteSaver: thread_id -> the latest checkpoint of AgentState
    tasks,      \* webhook background tasks, one per inbound message, in arrival order
    stock,      \* products table: product id -> stock
    orders,     \* orders table: the rows inserted, in order
    threadRows, \* threads table: thread_id -> number of rows
    llm_mode,   \* how the external model behaves in this run
    r_text,     \* router_node alone: the message text it is given
    r_out,      \* router_node alone: <<its result>>, or <<>> before it ran
    c_cart,     \* update_cart_state alone: the cart it starts from
    c_msg,      \* update_cart_state alone: the last message of its state
    c_out       \* update_cart_state alone: its results so far, in order

vars == <<store, tasks, stock, orders, threadRows, llm_mode,
          r_text, r_out, c_cart, c_msg, c_out>>

-----------------------------------------------------------------------------
(* Text. A Python str is modelled by its sequence of characters; the       *)
(* strings the model stores by name are spelled out by Chars.              *)

Chars(s) ==
    CASE s = "" -> <<>>
      [] s = " " -> <<" ">>
      [] s = "I need a HUMAN" -> <<"I", " ", "n", "e", "e", "d", " ", "a", " ", "H", "U", "M", "A", "N">>
      [] s = "Checkout" -> <<"C", "h", "e", "c", "k", "o", "u", "t">>
      [] s = "buy" -> <<"b", "u", "y">>
      [] s = "show CART" -> <<"s", "h", "o", "w", " ", "C", "A", "R", "T">>
      [] s = "jeans" -> <<"j", "e", "a", "n", "s">>
      [] s = "AGENT" -> <<"A", "G", "E", "N", "T">>
      [] s = "border" -> <<"b", "o", "r", "d", "e", "r">>
      [] s = "Hi" -> <<"H", "i">>
      [] s = "frustrated" -> <<"f", "r", "u", "s", "t", "r", "a", "t", "e", "d">>
      [] s = "PAY" -> <<"P", "A", "Y">>
      [] s = "my cart" -> <<"m", "y", " ", "c", "a", "r", "t">>
      [] s = "magenta" -> <<"m", "a", "g", "e", "n", "t", "a">>
      [] s = "show me jeans" -> <<"s", "h", "o", "w", " ", "m", "e", " ", "j", "e", "a", "n", "s">>
      [] s = "I need a HUMAN" -> <<"I", " ", "n", "e", "e", "d", " ", "a", " ", "H", "U", "M", "A", "N">>
      [] s = "checkout my cart" -> <<"c", "h", "e", "c", "k", "o", "u", "t", " ", "m", "y", " ", "c", "a", "r", "t">>
      [] s = "ok" -> <<"o", "k">>
      [] s = "Found" -> <<"F", "o", "u", "n", "d">>
      [] s = "not found" -> <<"n", "o", "t", " ", "f", "o", "u", "n", "d">>
      [] s = "out of stock" -> <<"o", "u", "t", " ", "o", "f", " ", "s", "t", "o", "c", "k">>
      [] s = "Added" -> <<"A", "d", "d", "e", "d">>
      [] s = "Removed" -> <<"R", "e", "m", "o", "v", "e", "d">>
      [] s = "Your cart is empty" -> <<"Y", "o", "u", "r", " ", "c", "a", "r", "t", " ", "i", "s", " ", "e", "m", "p", "t", "y">>
      [] s = "Order Confirmation" -> <<"O", "r", "d", "e", "r", " ", "C", "o", "n", "f", "i", "r", "m", "a", "t", "i", "o", "n">>
      [] s = "Your Cart" -> <<"Y", "o", "u", "r", " ", "C", "a", "r", "t">>
      [] s = "Error: not a valid tool" -> <<"E", "r", "r", "o", "r", ":", " ", "n", "o", "t", " ", "a", " ", "v", "a", "l", "i", "d", " ", "t", "o", "o", "l">>
      [] s = "handoff" -> <<"h", "a", "n", "d", "o", "f", "f">>
      [] s = "Checkout failed" -> <<"C", "h", "e", "c", "k", "o", "u", "t", " ", "f", "a", "i", "l", "e", "d">>
      [] s = "fallback" -> <<"f", "a", "l", "l", "b", "a", "c", "k">>
      [] OTHER -> <<>>

\* str.lower(), graph.py:95
LowerChar(c) ==
    CASE c = "A" -> "a"
      [] c = "B" -> "b"
      [] c = "C" -> "c"
      [] c = "D" -> "d"
      [] c = "E" -> "e"
      [] c = "F" -> "f"
      [] c = "G" -> "g"
      [] c = "H" -> "h"
      [] c = "I" -> "i"
      [] c = "J" -> "j"
      [] c = "K" -> "k"
      [] c = "L" -> "l"
      [] c = "M" -> "m"
      [] c = "N" -> "n"
      [] c = "O" -> "o"
      [] c = "P" -> "p"
      [] c = "Q" -> "q"
      [] c = "R" -> "r"
      [] c = "S" -> "s"
      [] c = "T" -> "t"
      [] c = "U" -> "u"
      [] c = "V" -> "v"
      [] c = "W" -> "w"
      [] c = "X" -> "x"
      [] c = "Y" -> "y"
      [] c = "Z" -> "z"
      [] OTHER -> c

lower(text) == [k \in 1..Len(text) |-> LowerChar(text[k])]

\* Python's `trigger in text` on str: trigger occurs as a contiguous substring
Contains(trigger, text) ==
    \E k \in 0..(Len(text) - Len(trigger)) :
        \A j \in 1..Len(trigger) : text[k + j] = trigger[j]

\* any(trigger in text for trigger in triggers)
AnyTrigger(triggers, text) ==
    \E n \in 1..Len(triggers) : Contains(triggers[n], text)

human_triggers ==
    << <<"h", "u", "m", "a", "n">>,
       <<"r", "e", "a", "l", " ", "p", "e", "r", "s", "o", "n">>,
       <<"a", "g", "e", "n", "t">>,
       <<"s", "u", "p", "p", "o", "r", "t">>,
       <<"h", "e", "l", "p", " ", "m", "e">>,
       <<"t", "h", "i", "s", " ", "i", "s", " ", "w", "r", "o", "n", "g">>,
       <<"i", "'", "m", " ", "f", "r", "u", "s", "t", "r", "a", "t", "e", "d">>,
       <<"f", "r", "u", "s", "t", "r", "a", "t", "e", "d">>,
       <<"a", "n", "g", "r", "y">>,
       <<"n", "o", "t", " ", "h", "a", "p", "p", "y">>,
       <<"s", "p", "e", "a", "k", " ", "t", "o", " ", "s", "o", "m", "e", "o", "n", "e">>,
       <<"t", "a", "l", "k", " ", "t", "o", " ", "s", "o", "m", "e", "o", "n", "e">> >>

checkout_triggers ==
    << <<"c", "h", "e", "c", "k", "o", "u", "t">>,
       <<"b", "u", "y">>,
       <<"p", "u", "r", "c", "h", "a", "s", "e">>,
       <<"o", "r", "d", "e", "r">>,
       <<"p", "a", "y">>,
       <<"p", "l", "a", "c", "e", " ", "o", "r", "d", "e", "r">>,
       <<"b", "u", "y", " ", "i", "t">>,
       <<"i", "'", "l", "l", " ", "t", "a", "k", "e", " ", "i", "t">>,
       <<"c", "o", "n", "f", "i", "r", "m">> >>

cart_triggers ==
    << <<"c", "a", "r", "t">>,
       <<"w", "h", "a", "t", "'", "s", " ", "i", "n", " ", "m", "y", " ", "c", "a", "r", "t">>,
       <<"m", "y", " ", "c", "a", "r", "t">>,
       <<"s", "h", "o", "w", " ", "c", "a", "r", "t">> >>

-----------------------------------------------------------------------------
(* Messages. Every message carries a type ("human", "ai", "tool"), a       *)
(* content string and the tool calls it requests. A content string is      *)
(* modelled by what json.loads makes of it: fmt "text" is a string that is *)
(* not JSON, "object" the dump of a dict, "null" and "number" the dumps of *)
(* None and of an int. A dict is a record of the keys the envelope uses;   *)
(* NoKey marks an absent key, for which dict.get returns None.             *)

NoKey == "None"

\* Python's None where a product id is expected (data.get("product_id"))
None == 0

\* what a checkout receipt lists after its heading (tools.py:160-198): the
\* products ordered, the entries it could not process, and the total
NoReceipt == [lines |-> <<>>, failed |-> <<>>, total |-> 0]

\* "message" is the first line of the message string, "receipt" what the
\* rest of a checkout message lists
EmptyDict ==
    [status |-> NoKey, action |-> NoKey, product_id |-> None,
     message |-> <<>>, receipt |-> NoReceipt, error |-> <<>>]

\* a str that json.loads rejects (plain display text), given by its characters
RawText(chars) == [fmt |-> "text", text |-> chars, obj |-> EmptyDict]
Text(s) == RawText(Chars(s))

\* json.dumps of a dict / of None / of an int
json_dumps(d) == [fmt |-> "object", text |-> <<>>, obj |-> d]
json_dumps_None == [fmt |-> "null", text |-> <<>>, obj |-> EmptyDict]
json_dumps_int == [fmt |-> "number", text |-> <<>>, obj |-> EmptyDict]

\* json.loads: decode error on plain text, else the value and its Python type
json_loads(content) ==
    [JSONDecodeError |-> content.fmt = "text",
     type |-> CASE content.fmt = "object" -> "dict"
                [] content.fmt = "null" -> "NoneType"
                [] content.fmt = "number" -> "int"
                [] OTHER -> "str",
     value |-> content.obj]

HumanMessage(content) == [type |-> "human", content |-> content, tool_calls |-> <<>>]
AIMessage(content) == [type |-> "ai", content |-> content, tool_calls |-> <<>>]
AIToolCalls(calls) == [type |-> "ai", content |-> Text(""), tool_calls |-> calls]
ToolMessage(content) == [type |-> "tool", content |-> content, tool_calls |-> <<>>]

Last(s) == s[Len(s)]

\* a reducer that puts new messages first
add_messages_prepend(left, right) == right \o left

\* messages: Annotated[list, add_messages]: new messages (fresh ids) are appended
add_messages(left, right) == left \o right

-----------------------------------------------------------------------------
(* router_node, graph.py:87-126: the update it returns for a state.        *)

\* router_node with the checkout keywords tested before the escalation ones
router_node_checkout_first(state) ==
    LET text == lower(Last(state.messages).content.text)
    IN  IF AnyTrigger(checkout_triggers, text)
        THEN [current_intent |-> "checkout", requires_human |-> FALSE]
        ELSE IF AnyTrigger(human_triggers, text)
        THEN [current_intent |-> "support", requires_human |-> TRUE]
        ELSE [current_intent |-> "browsing", requires_human |-> FALSE]

\* router_node whose default is the "greeting" intent state.py lists
router_node_default_greeting(state) ==
    LET text == lower(Last(state.messages).content.text)
    IN  IF AnyTrigger(human_triggers, text)
        THEN [current_intent |-> "support", requires_human |-> TRUE]
        ELSE IF AnyTrigger(checkout_triggers, text)
        THEN [current_intent |-> "checkout", requires_human |-> FALSE]
        ELSE IF AnyTrigger(cart_triggers, text)
        THEN [current_intent |-> "browsing", requires_human |-> FALSE]
        ELSE [current_intent |-> "greeting", requires_human |-> FALSE]

router_node(state) ==
    LET text == lower(Last(state.messages).content.text)
    IN  IF AnyTrigger(human_triggers, text)
        THEN [current_intent |-> "support", requires_human |-> TRUE]
        ELSE IF AnyTrigger(checkout_triggers, text)
        THEN [current_intent |-> "checkout", requires_human |-> FALSE]
        ELSE IF AnyTrigger(cart_triggers, text)
        THEN [current_intent |-> "browsing", requires_human |-> FALSE]
        ELSE [current_intent |-> "browsing", requires_human |-> FALSE]

\* an edge that sends every turn to the model
route_after_router_always_agent(state) == "agent_node"

route_after_router(state) ==
    IF state.requires_human THEN "handoff_node" ELSE "agent_node"

\* an edge that ends the turn after every model answer
route_after_agent_always_end(state) == "END"

route_after_agent(state) ==
    IF Len(Last(state.messages).tool_calls) > 0 THEN "tools_node" ELSE "END"

-----------------------------------------------------------------------------
(* update_cart_state, graph.py:233-263. The result names the exception     *)
(* that escapes (NoKey when none), whether the returned dict holds         *)
(* user_cart, and its value.                                               *)

InCart(pid, cart) == \E k \in 1..Len(cart) : cart[k] = pid

Filter(cart, pid) ==
    LET F[k \in 0..Len(cart)] ==
            IF k = 0 THEN <<>>
            ELSE IF cart[k] # pid THEN Append(F[k - 1], cart[k]) ELSE F[k - 1]
    IN  F[Len(cart)]

NoUpdate(cart) == [raised |-> NoKey, writes |-> FALSE, user_cart |-> cart]
Update(cart) == [raised |-> NoKey, writes |-> TRUE, user_cart |-> cart]

\* update_cart_state without the `pid not in current_cart` test
update_cart_state_no_membership_test(state) ==
    LET last_message == Last(state.messages)
        loaded == json_loads(last_message.content)
        data == loaded.value
        current_cart == state.user_cart
        pid == data.product_id
        action == data.action
    IN  IF last_message.type # "tool" THEN NoUpdate(current_cart)
        ELSE IF loaded.JSONDecodeError THEN NoUpdate(current_cart)
        ELSE IF loaded.type # "dict"
        THEN [raised |-> "AttributeError", writes |-> FALSE, user_cart |-> current_cart]
        ELSE IF data.status # "success" THEN NoUpdate(current_cart)
        ELSE IF action = "add"
        THEN Update(Append(current_cart, pid))
        ELSE IF action = "remove" /\ InCart(pid, current_cart)
        THEN Update(Filter(current_cart, pid))
        ELSE IF action = "checkout" THEN Update(<<>>)
        ELSE NoUpdate(current_cart)

\* update_cart_state with the new id put in front
update_cart_state_prepend(state) ==
    LET last_message == Last(state.messages)
        loaded == json_loads(last_message.content)
        data == loaded.value
        current_cart == state.user_cart
        pid == data.product_id
        action == data.action
    IN  IF last_message.type # "tool" THEN NoUpdate(current_cart)
        ELSE IF loaded.JSONDecodeError THEN NoUpdate(current_cart)
        ELSE IF loaded.type # "dict"
        THEN [raised |-> "AttributeError", writes |-> FALSE, user_cart |-> current_cart]
        ELSE IF data.status # "success" THEN NoUpdate(current_cart)
        ELSE IF action = "add" /\ ~InCart(pid, current_cart)
        THEN Update(<<pid>> \o current_cart)
        ELSE IF action = "remove" /\ InCart(pid, current_cart)
        THEN Update(Filter(current_cart, pid))
        ELSE IF action = "checkout" THEN Update(<<>>)
        ELSE NoUpdate(current_cart)

\* a reducer that reads the result before the last when there is one
update_cart_state_previous_result(state) ==
    LET n == Len(state.messages)
        last_message == IF n >= 2 /\ state.messages[n - 1].type = "tool"
                        THEN state.messages[n - 1]
                        ELSE state.messages[n]
        loaded == json_loads(last_message.content)
        data == loaded.value
        current_cart == state.user_cart
        pid == data.product_id
        action == data.action
    IN  IF last_message.type # "tool" THEN NoUpdate(current_cart)
        ELSE IF loaded.JSONDecodeError THEN NoUpdate(current_cart)
        ELSE IF loaded.type # "dict"
        THEN [raised |-> "AttributeError", writes |-> FALSE, user_cart |-> current_cart]
        ELSE IF data.status # "success" THEN NoUpdate(current_cart)
        ELSE IF action = "add" /\ ~InCart(pid, current_cart)
        THEN Update(Append(current_cart, pid))
        ELSE IF action = "remove" /\ InCart(pid, current_cart)
        THEN Update(Filter(current_cart, pid))
        ELSE IF action = "checkout" THEN Update(<<>>)
        ELSE NoUpdate(current_cart)

update_cart_state(state) ==
    LET last_message == Last(state.messages)
        loaded == json_loads(last_message.content)
        data == loaded.value
        current_cart == state.user_cart
        pid == data.product_id
        action == data.action
    IN  IF last_message.type # "tool" THEN NoUpdate(current_cart)
        ELSE IF loaded.JSONDecodeError THEN NoUpdate(current_cart)
        ELSE IF loaded.type # "dict"
        THEN [raised |-> "AttributeError", writes |-> FALSE, user_cart |-> current_cart]
        ELSE IF data.status # "success" THEN NoUpdate(current_cart)
        ELSE IF action = "add" /\ ~InCart(pid, current_cart)
        THEN Update(Append(current_cart, pid))
        ELSE IF action = "remove" /\ InCart(pid, current_cart)
        THEN Update(Filter(current_cart, pid))
        ELSE IF action = "checkout" THEN Update(<<>>)
        ELSE NoUpdate(current_cart)

\* the cart of the state after a node's returned dict is applied
CartAfter(cart, result) == IF result.writes THEN result.user_cart ELSE cart

-----------------------------------------------------------------------------
(* The store database and the tools, tools.py. A tool result is the        *)
(* content string it returns together with the tables after the call.      *)

Threads == {"t1", "t2"}

\* ids of the rows of the products table; the model may name one more id
Products == {1, 2, 3}
MissingProduct == {4}

\* seeds.py: every product is seeded in stock except one seeded with stock=0
MaxStock == 1
OutOfStockProduct == {3}
InitStock == [p \in Products |-> IF p \in OutOfStockProduct THEN 0 ELSE MaxStock]

\* seeds.py: prices, in cents, of the first two products and of the one
\* seeded out of stock
Price == [p \in Products |-> IF p = 1 THEN 12999 ELSE 8999]

\* db.commit() at tools.py:193 either succeeds or raises
CommitOutcomes == {"ok", "raises"}

ToolCall(name, product_id, action, cart_product_ids, thread_id) ==
    [name |-> name, product_id |-> product_id, action |-> action,
     cart_product_ids |-> cart_product_ids, thread_id |-> thread_id]

ToolResult(content, stk, ords) == [content |-> content, stock |-> stk, orders |-> ords]

\* tools.py:30-91, a read-only query answered with display text
search_inventory(stk, ords) == ToolResult(Text("Found"), stk, ords)

\* a manage_cart that reserves the product it adds
manage_cart_reserves_stock(product_id, action, stk, ords) ==
    IF product_id \notin Products
    THEN ToolResult(json_dumps([EmptyDict EXCEPT !.error = Chars("not found")]), stk, ords)
    ELSE IF action = "add"
    THEN IF stk[product_id] = 0
         THEN ToolResult(json_dumps([EmptyDict EXCEPT !.error = Chars("out of stock")]),
                         stk, ords)
         ELSE ToolResult(json_dumps([EmptyDict EXCEPT !.status = "success",
                                         !.action = "add", !.product_id = product_id,
                                         !.message = Chars("Added")]),
                         [stk EXCEPT ![product_id] = @ - 1], ords)
    ELSE IF action = "remove"
    THEN ToolResult(json_dumps([EmptyDict EXCEPT !.status = "success",
                                    !.action = "remove", !.product_id = product_id,
                                    !.message = Chars("Removed")]), stk, ords)
    ELSE ToolResult(json_dumps_None, stk, ords)

\* a manage_cart that adds whatever the stock is
manage_cart_no_stock_check(product_id, action, stk, ords) ==
    IF product_id \notin Products
    THEN ToolResult(json_dumps([EmptyDict EXCEPT !.error = Chars("not found")]), stk, ords)
    ELSE IF action = "add"
    THEN ToolResult(json_dumps([EmptyDict EXCEPT !.status = "success",
                                    !.action = "add", !.product_id = product_id,
                                    !.message = Chars("Added")]), stk, ords)
    ELSE IF action = "remove"
    THEN ToolResult(json_dumps([EmptyDict EXCEPT !.status = "success",
                                    !.action = "remove", !.product_id = product_id,
                                    !.message = Chars("Removed")]), stk, ords)
    ELSE ToolResult(json_dumps_None, stk, ords)

\* tools.py:100-130 (a call with another action falls off the end and
\* returns None, which ToolNode stores as the string "null")
manage_cart(product_id, action, stk, ords) ==
    IF product_id \notin Products
    THEN ToolResult(json_dumps([EmptyDict EXCEPT !.error = Chars("not found")]), stk, ords)
    ELSE IF action = "add"
    THEN IF stk[product_id] = 0
         THEN ToolResult(json_dumps([EmptyDict EXCEPT !.error = Chars("out of stock")]),
                         stk, ords)
         ELSE ToolResult(json_dumps([EmptyDict EXCEPT !.status = "success",
                                         !.action = "add", !.product_id = product_id,
                                         !.message = Chars("Added")]), stk, ords)
    ELSE IF action = "remove"
    THEN ToolResult(json_dumps([EmptyDict EXCEPT !.status = "success",
                                    !.action = "remove", !.product_id = product_id,
                                    !.message = Chars("Removed")]), stk, ords)
    ELSE ToolResult(json_dumps_None, stk, ords)

RECURSIVE CheckoutLoop_no_stock_test(_, _, _, _, _)
CheckoutLoop_no_stock_test(ids, thread_id, stk, ords, receipt) ==
    IF ids = <<>> THEN [stock |-> stk, orders |-> ords, receipt |-> receipt]
    ELSE LET product_id == Head(ids)
         IN  IF product_id \notin Products
             THEN CheckoutLoop_no_stock_test(Tail(ids), thread_id, stk, ords,
                               [receipt EXCEPT !.failed =
                                   Append(@, [product_id |-> product_id,
                                              why |-> "not found"])])
             ELSE CheckoutLoop_no_stock_test(Tail(ids), thread_id,
                               [stk EXCEPT ![product_id] = @ - 1],
                               Append(ords, [thread_id |-> thread_id,
                                             product_id |-> product_id,
                                             total_price |-> Price[product_id]]),
                               [receipt EXCEPT !.lines = Append(@, product_id),
                                               !.total = @ + Price[product_id]])

\* tools.py:164-189, the loop over cart_product_ids inside one session:
\* the pending writes and what the receipt will list
RECURSIVE CheckoutLoop(_, _, _, _, _)
CheckoutLoop(ids, thread_id, stk, ords, receipt) ==
    IF ids = <<>> THEN [stock |-> stk, orders |-> ords, receipt |-> receipt]
    ELSE LET product_id == Head(ids)
         IN  IF product_id \notin Products
             THEN CheckoutLoop(Tail(ids), thread_id, stk, ords,
                               [receipt EXCEPT !.failed =
                                   Append(@, [product_id |-> product_id,
                                              why |-> "not found"])])
             ELSE IF stk[product_id] < 1
             THEN CheckoutLoop(Tail(ids), thread_id, stk, ords,
                               [receipt EXCEPT !.failed =
                                   Append(@, [product_id |-> product_id,
                                              why |-> "out of stock"])])
             ELSE CheckoutLoop(Tail(ids), thread_id,
                               [stk EXCEPT ![product_id] = @ - 1],
                               Append(ords, [thread_id |-> thread_id,
                                             product_id |-> product_id,
                                             total_price |-> Price[product_id]]),
                               [receipt EXCEPT !.lines = Append(@, product_id),
                                               !.total = @ + Price[product_id]])

\* a checkout that answers with an error envelope when it could order nothing
finalize_order_needs_an_order(cart_product_ids, thread_id, stk, ords, db_commit) ==
    IF cart_product_ids = <<>>
    THEN ToolResult(Text("Your cart is empty"), stk, ords)
    ELSE LET done == CheckoutLoop(cart_product_ids, thread_id, stk, ords, NoReceipt)
         IN  IF db_commit = "raises"
             THEN ToolResult(Text("Checkout failed"), stk, ords)
             ELSE IF done.receipt.lines = <<>>
             THEN ToolResult(json_dumps([EmptyDict EXCEPT !.status = "error",
                                            !.action = "checkout",
                                            !.message = Chars("Checkout failed"),
                                            !.receipt = done.receipt]),
                             stk, ords)
             ELSE ToolResult(json_dumps([EmptyDict EXCEPT !.status = "success",
                                            !.action = "checkout",
                                            !.message = Chars("Order Confirmation"),
                                            !.receipt = done.receipt]),
                             done.stock, done.orders)

finalize_order_no_rollback(cart_product_ids, thread_id, stk, ords, db_commit) ==
    IF cart_product_ids = <<>>
    THEN ToolResult(Text("Your cart is empty"), stk, ords)
    ELSE LET done == CheckoutLoop(cart_product_ids, thread_id, stk, ords, NoReceipt)
         IN  IF db_commit = "raises"
             THEN ToolResult(Text("Checkout failed"), done.stock, done.orders)
             ELSE ToolResult(json_dumps([EmptyDict EXCEPT !.status = "success",
                                            !.action = "checkout",
                                            !.message = Chars("Order Confirmation"),
                                            !.receipt = done.receipt]),
                             done.stock, done.orders)

\* tools.py:142-214; db_commit is the outcome of the one db.commit(). When
\* it raises, db.rollback() drops the pending writes and the tool returns
\* a plain text
finalize_order(cart_product_ids, thread_id, stk, ords, db_commit) ==
    IF cart_product_ids = <<>>
    THEN ToolResult(Text("Your cart is empty"), stk, ords)
    ELSE LET done == CheckoutLoop(cart_product_ids, thread_id, stk, ords, NoReceipt)
         IN  IF db_commit = "raises"
             THEN ToolResult(Text("Checkout failed"), stk, ords)
             ELSE ToolResult(json_dumps([EmptyDict EXCEPT !.status = "success",
                                            !.action = "checkout",
                                            !.message = Chars("Order Confirmation"),
                                            !.receipt = done.receipt]),
                             done.stock, done.orders)

\* tools.py:221-253, read-only display text
get_cart_summary(cart_product_ids, stk, ords) ==
    IF cart_product_ids = <<>>
    THEN ToolResult(Text("Your cart is empty"), stk, ords)
    ELSE ToolResult(Text("Your Cart"), stk, ords)

\* ToolNode(ALL_TOOLS), graph.py:171: dispatch by name; a name that is not
\* registered is answered with an error text. The calls of one AI message
\* are taken in call order, which is the order of their tool messages
InvokeTool(call, stk, ords, db_commit) ==
    CASE call.name = "search_inventory" -> search_inventory(stk, ords)
      [] call.name = "manage_cart" ->
            manage_cart(call.product_id, call.action, stk, ords)
      [] call.name = "finalize_order" ->
            finalize_order(call.cart_product_ids, call.thread_id, stk, ords, db_commit)
      [] call.name = "get_cart_summary" ->
            get_cart_summary(call.cart_product_ids, stk, ords)
      [] OTHER -> ToolResult(Text("Error: not a valid tool"), stk, ords)

\* a tools step that answers only the first request of a message
tools_node_first_call_only(calls, stk, ords, db_commit) ==
    IF calls = <<>> THEN [messages |-> <<>>, stock |-> stk, orders |-> ords]
    ELSE LET r == InvokeTool(Head(calls), stk, ords, db_commit)
         IN  [messages |-> <<ToolMessage(r.content)>>,
              stock |-> r.stock, orders |-> r.orders]

\* the tool messages of all calls of one AI message, in call order
RECURSIVE tools_node(_, _, _, _)
tools_node(calls, stk, ords, db_commit) ==
    IF calls = <<>> THEN [messages |-> <<>>, stock |-> stk, orders |-> ords]
    ELSE LET r == InvokeTool(Head(calls), stk, ords, db_commit)
             rest == tools_node(Tail(calls), r.stock, r.orders, db_commit)
         IN  [messages |-> <<ToolMessage(r.content)>> \o rest.messages,
              stock |-> rest.stock, orders |-> rest.orders]

-----------------------------------------------------------------------------
(* One turn: run_agent (runner.py:59-134) driving the compiled graph       *)
(* (graph.py:270-330). Each background task holds the channel values of    *)
(* its invoke() in memory and writes them to the checkpointer after every  *)
(* node.                                                                   *)

MaxTurns == 2
MaxToolRounds == 2

\* the super-steps one invoke() may run: no recursion_limit is configured,
\* so LangGraph's default applies
RecursionLimit == 25

TurnTexts == {"show me jeans", "I need a HUMAN", "checkout my cart"}

Nodes == {"router_node", "agent_node", "tools_node", "update_cart", "handoff_node"}

\* AgentState before any node has written it (state.get(...) defaults)
DefaultState ==
    [messages |-> <<>>, user_cart |-> <<>>,
     current_intent |-> NoKey, requires_human |-> FALSE]

Checkpoint(state, next) == [state |-> state, next |-> next]

\* runner.py:131-134
FallbackReply == Text("fallback")

NewTask(thread_id, text) ==
    [thread_id |-> thread_id, text |-> text, pc |-> "queued",
     state |-> DefaultState, step |-> 0, agent_calls |-> 0, tool_rounds |-> 0,
     reply |-> Text(""), failed_at |-> NoKey, raised |-> FALSE]

TaskIds == 1..Len(tasks)

\* the tool-requesting answers the model has given so far, over all turns
RECURSIVE ToolRounds(_)
ToolRounds(n) == IF n = 0 THEN 0 ELSE tasks[n].tool_rounds + ToolRounds(n - 1)

\* handle_reply awaits run_agent, which never yields to the event loop
\* (invoke and upsert_thread are synchronous calls): while a task is inside
\* run_agent the loop runs nothing else, neither another task nor the
\* webhook handler
\* an event loop that a running turn does not block
EventLoopNeverBlocked == TRUE

EventLoopFree == \A j \in TaskIds : tasks[j].pc \in {"queued", "done"}

\* the variables of router_node alone and update_cart_state alone, at rest
PureIdle == /\ r_text = <<>> /\ r_out = <<>> /\ c_cart = <<>>
            /\ c_msg = ToolMessage(Text("")) /\ c_out = <<>>

pureVars == <<r_text, r_out, c_cart, c_msg, c_out>>
dbVars == <<stock, orders, threadRows>>

Init ==
    /\ store = [t \in Threads |-> Checkpoint(DefaultState, "END")]
    /\ tasks = <<>>
    /\ stock = InitStock
    /\ orders = <<>>
    /\ threadRows = [t \in Threads |-> 0]
    /\ llm_mode \in {"bounded", "always_tool"}
    /\ PureIdle

\* webhook.py:32-47
receive_message ==
    /\ Len(tasks) < MaxTurns
    /\ EventLoopFree
    /\ \E t \in Threads, text \in TurnTexts :
           tasks' = Append(tasks, NewTask(t, text))
    /\ UNCHANGED <<store, dbVars, llm_mode, pureVars>>

\* an upsert_thread that inserts without looking for the row
upsert_thread_always_inserts(rows, thread_id) == [rows EXCEPT ![thread_id] = @ + 1]

\* runner.py:20-56
upsert_thread(rows, thread_id) ==
    IF rows[thread_id] > 0 THEN rows ELSE [rows EXCEPT ![thread_id] = 1]

\* an input_state that carries defaults for every key of AgentState
run_agent_input_defaults(i) ==
    /\ tasks[i].pc = "queued"
    /\ EventLoopFree
    /\ LET t == tasks[i].thread_id
           loaded == store[t].state
           state == [DefaultState EXCEPT !.messages =
                        add_messages(loaded.messages,
                                     <<HumanMessage(Text(tasks[i].text))>>)]
       IN  /\ threadRows' = upsert_thread(threadRows, t)
           /\ tasks' = [tasks EXCEPT ![i].pc = "router_node", ![i].state = state]
           /\ store' = [store EXCEPT ![t] = Checkpoint(state, "router_node")]
    /\ UNCHANGED <<stock, orders, llm_mode, pureVars>>

\* runner.py:89-113 up to the graph's entry: the thread row, the checkpoint
\* loaded, the new HumanMessage merged into messages, START -> router_node
run_agent(i) ==
    /\ tasks[i].pc = "queued"
    /\ EventLoopFree
    /\ LET t == tasks[i].thread_id
           loaded == store[t].state
           state == [loaded EXCEPT !.messages =
                        add_messages(@, <<HumanMessage(Text(tasks[i].text))>>)]
       IN  /\ threadRows' = upsert_thread(threadRows, t)
           /\ tasks' = [tasks EXCEPT ![i].pc = "router_node", ![i].state = state]
           /\ store' = [store EXCEPT ![t] = Checkpoint(state, "router_node")]
    /\ UNCHANGED <<stock, orders, llm_mode, pureVars>>

\* runner.py:89: upsert_thread runs before the try block of run_agent and
\* has a finally clause but no except clause (runner.py:34-56), so a
\* failure of the business database there leaves run_agent as an
\* exception to handle_reply, which sends nothing
upsert_thread_raises(i) ==
    /\ tasks[i].pc = "queued"
    /\ EventLoopFree
    /\ tasks' = [tasks EXCEPT ![i].pc = "done", ![i].failed_at = "upsert_thread",
                              ![i].raised = TRUE]
    /\ UNCHANGED <<store, dbVars, llm_mode, pureVars>>

\* a node's turn to run: the task is at it and the step budget is not spent
AtNode(i, node) == tasks[i].pc = node /\ tasks[i].step < RecursionLimit

\* a graph that saves nothing between nodes
Advance_no_checkpoint(i, state, next) ==
    /\ tasks' = [tasks EXCEPT ![i].pc = next, ![i].state = state,
                              ![i].step = @ + 1,
                              ![i].agent_calls =
                                  IF tasks[i].pc = "agent_node" THEN @ + 1 ELSE @,
                              ![i].tool_rounds =
                                  IF next = "tools_node" THEN @ + 1 ELSE @]
    /\ UNCHANGED store

\* a checkpointer that keeps one state for all threads
Advance_shared_store(i, state, next) ==
    /\ tasks' = [tasks EXCEPT ![i].pc = next, ![i].state = state,
                              ![i].step = @ + 1,
                              ![i].agent_calls =
                                  IF tasks[i].pc = "agent_node" THEN @ + 1 ELSE @,
                              ![i].tool_rounds =
                                  IF next = "tools_node" THEN @ + 1 ELSE @]
    /\ store' = [t \in Threads |-> Checkpoint(state, next)]

\* the task and the checkpoint after a node has run and its edge is taken
Advance(i, state, next) ==
    /\ tasks' = [tasks EXCEPT ![i].pc = next, ![i].state = state,
                              ![i].step = @ + 1,
                              ![i].agent_calls =
                                  IF tasks[i].pc = "agent_node" THEN @ + 1 ELSE @,
                              ![i].tool_rounds =
                                  IF next = "tools_node" THEN @ + 1 ELSE @]
    /\ store' = [store EXCEPT ![tasks[i].thread_id] = Checkpoint(state, next)]

\* a failure handler that puts the thread back to a fresh state
Raise_resets_checkpoint(i) ==
    /\ tasks' = [tasks EXCEPT ![i].pc = "done", ![i].reply = FallbackReply,
                              ![i].failed_at = tasks[i].pc]
    /\ store' = [store EXCEPT ![tasks[i].thread_id] = Checkpoint(DefaultState, "END")]

\* an exception escapes invoke(): run_agent returns the fallback reply,
\* the checkpoint stays where the last completed node left it
Raise(i) ==
    /\ tasks' = [tasks EXCEPT ![i].pc = "done", ![i].reply = FallbackReply,
                              ![i].failed_at = tasks[i].pc]
    /\ UNCHANGED store

RouterStep(i) ==
    /\ AtNode(i, "router_node")
    /\ LET upd == router_node(tasks[i].state)
           state == [tasks[i].state EXCEPT
                        !.current_intent = upd.current_intent,
                        !.requires_human = upd.requires_human]
       IN  Advance(i, state, route_after_router(state))
    /\ UNCHANGED <<dbVars, llm_mode, pureVars>>

\* a prompt that never mentions the cart
Prompt_without_cart(state) ==
    [cart_context |-> <<>>, messages |-> state.messages]

\* graph.py:144-150: what agent_node hands to the model: the conversation
\* history and, when state["user_cart"] is not empty, a line with the ids
\* in it (cart_context holds that line's list, or nothing)
Prompt(state) ==
    [cart_context |-> IF state.user_cart # <<>> THEN <<state.user_cart>> ELSE <<>>,
     messages |-> state.messages]

\* what the model may answer. "always_tool" is a model that requests a tool
\* on every invocation; "bounded" one that answers anything, and requests
\* tools at most MaxToolRounds times in a run. The arguments of a call are
\* the model's: for finalize_order and get_cart_summary it may pass the
\* cart its prompt shows, and for finalize_order also ids of its own
NextCalls(i) ==
    LET prompt == Prompt(tasks[i].state)
        cart == IF prompt.cart_context = <<>> THEN <<>> ELSE prompt.cart_context[1]
        t == tasks[i].thread_id
    IN  { <<ToolCall("manage_cart", p, "add", <<>>, t)>> :
              p \in Products \cup MissingProduct }
        \cup { <<ToolCall("manage_cart", p, "remove", <<>>, t)>> :
                  p \in Products \ OutOfStockProduct }
        \cup { <<ToolCall("manage_cart", 1, "delete", <<>>, t)>>,
               <<ToolCall("finalize_order", None, NoKey, cart, t)>>,
               <<ToolCall("finalize_order", None, NoKey, <<1, 1>>, t)>>,
               <<ToolCall("finalize_order", None, NoKey, <<3, 4>>, t)>>,
               <<ToolCall("search_inventory", None, NoKey, <<>>, t)>>,
               <<ToolCall("get_cart_summary", None, NoKey, cart, t)>>,
               <<ToolCall("manage_cart", 1, "add", <<>>, t),
                 ToolCall("manage_cart", 2, "add", <<>>, t)>> }

LLMResponses(i) ==
    IF llm_mode = "always_tool"
    THEN { AIToolCalls(<<ToolCall("search_inventory", None, NoKey, <<>>,
                                  tasks[i].thread_id)>>) }
    ELSE { AIMessage(Text("ok")) }
         \cup IF ToolRounds(Len(tasks)) < MaxToolRounds
              THEN { AIToolCalls(calls) : calls \in NextCalls(i) }
              ELSE {}

\* an agent step that also marks the conversation as browsing
agent_node_sets_intent(state, response) ==
    [state EXCEPT !.messages = add_messages(@, <<response>>),
                  !.current_intent = "browsing",
                  !.requires_human = FALSE]

\* graph.py:133-159
agent_node(state, response) ==
    [state EXCEPT !.messages = add_messages(@, <<response>>)]

AgentStep(i) ==
    /\ AtNode(i, "agent_node")
    /\ \E response \in LLMResponses(i) :
           LET state == agent_node(tasks[i].state, response)
           IN  Advance(i, state, route_after_agent(state))
    /\ UNCHANGED <<dbVars, llm_mode, pureVars>>

\* llm.invoke raises (graph.py:155)
AgentRaises(i) ==
    /\ AtNode(i, "agent_node")
    /\ llm_mode = "bounded"
    /\ Raise(i)
    /\ UNCHANGED <<dbVars, llm_mode, pureVars>>

\* a tools step that applies the cart change itself
ToolsStep_writes_cart(i) ==
    /\ AtNode(i, "tools_node")
    /\ \E db_commit \in CommitOutcomes :
        LET ran == tools_node(Last(tasks[i].state.messages).tool_calls, stock, orders,
                              db_commit)
            said == [tasks[i].state EXCEPT !.messages = add_messages(@, ran.messages)]
            result == update_cart_state(said)
            state == [said EXCEPT !.user_cart = CartAfter(@, result)]
        IN  /\ Advance(i, state, "update_cart")
            /\ stock' = ran.stock
            /\ orders' = ran.orders
    /\ UNCHANGED <<threadRows, llm_mode, pureVars>>

ToolsStep(i) ==
    /\ AtNode(i, "tools_node")
    /\ \E db_commit \in CommitOutcomes :
        LET ran == tools_node(Last(tasks[i].state.messages).tool_calls, stock, orders,
                              db_commit)
            state == [tasks[i].state EXCEPT !.messages = add_messages(@, ran.messages)]
        IN  /\ Advance(i, state, "update_cart")
            /\ stock' = ran.stock
            /\ orders' = ran.orders
    /\ UNCHANGED <<threadRows, llm_mode, pureVars>>

UpdateCartStep(i) ==
    /\ AtNode(i, "update_cart")
    /\ LET result == update_cart_state(tasks[i].state)
           state == [tasks[i].state EXCEPT !.user_cart = CartAfter(@, result)]
       IN  IF result.raised # NoKey THEN Raise(i)
           ELSE Advance(i, state, "agent_node")
    /\ UNCHANGED <<dbVars, llm_mode, pureVars>>

\* a handoff that also drops the cart
handoff_node_clears_cart(state) ==
    [state EXCEPT !.messages = add_messages(@, <<AIMessage(Text("handoff"))>>),
                  !.user_cart = <<>>]

\* graph.py:179-193
handoff_node(state) ==
    [state EXCEPT !.messages = add_messages(@, <<AIMessage(Text("handoff"))>>)]

HandoffStep(i) ==
    /\ AtNode(i, "handoff_node")
    /\ Advance(i, handoff_node(tasks[i].state), "END")
    /\ UNCHANGED <<dbVars, llm_mode, pureVars>>

\* the step budget is spent before the graph reached END: invoke() raises
\* GraphRecursionError
GraphRecursionError(i) ==
    /\ tasks[i].pc \in Nodes
    /\ tasks[i].step >= RecursionLimit
    /\ Raise(i)
    /\ UNCHANGED <<dbVars, llm_mode, pureVars>>

\* runner.py:113-125: invoke() returned the final state
ReturnReply(i) ==
    /\ tasks[i].pc = "END"
    /\ tasks' = [tasks EXCEPT ![i].pc = "done",
                              ![i].reply = Last(tasks[i].state.messages).content]
    /\ UNCHANGED <<store, dbVars, llm_mode, pureVars>>

Next ==
    \/ receive_message
    \/ \E i \in TaskIds : run_agent(i)
    \/ \E i \in TaskIds : upsert_thread_raises(i)
    \/ \E i \in TaskIds : RouterStep(i)
    \/ \E i \in TaskIds : AgentStep(i)
    \/ \E i \in TaskIds : AgentRaises(i)
    \/ \E i \in TaskIds : ToolsStep(i)
    \/ \E i \in TaskIds : UpdateCartStep(i)
    \/ \E i \in TaskIds : HandoffStep(i)
    \/ \E i \in TaskIds : GraphRecursionError(i)
    \/ \E i \in TaskIds : ReturnReply(i)

Spec == Init /\ [][Next]_vars

\* what the process itself is sure to do: every step of a turn that is not
\* the wait for the model's answer. llm.invoke(messages) at graph.py:155 is
\* a blocking call on a client built with no timeout and no retry setting
\* (graph.py:46-52) and nothing around it bounds the wait, so whether
\* AgentStep or AgentRaises ever happens is up to the model's service
EngineStep ==
    \/ \E i \in TaskIds : run_agent(i)
    \/ \E i \in TaskIds : RouterStep(i)
    \/ \E i \in TaskIds : ToolsStep(i)
    \/ \E i \in TaskIds : UpdateCartStep(i)
    \/ \E i \in TaskIds : HandoffStep(i)
    \/ \E i \in TaskIds : GraphRecursionError(i)
    \/ \E i \in TaskIds : ReturnReply(i)

FairSpec == Spec /\ WF_vars(EngineStep)

-----------------------------------------------------------------------------
(* router_node on its own: every text made of two fragments is classified. *)

Fragments ==
    {"", " ", "I need a HUMAN", "Checkout", "buy", "show CART", "jeans",
     "AGENT", "border", "Hi", "frustrated", "PAY", "my cart", "magenta"}

RouterTexts == { Chars(a) \o Chars(b) : a, b \in Fragments }

\* the engine at rest, while a function runs on its own
MainIdle ==
    /\ store = [t \in Threads |-> Checkpoint(DefaultState, "END")]
    /\ tasks = <<>>
    /\ stock = InitStock
    /\ orders = <<>>
    /\ threadRows = [t \in Threads |-> 0]
    /\ llm_mode = "bounded"

mainVars == <<store, tasks, stock, orders, threadRows, llm_mode>>

InitRouter ==
    /\ MainIdle
    /\ r_text \in RouterTexts
    /\ r_out = <<>>
    /\ c_cart = <<>> /\ c_msg = ToolMessage(Text("")) /\ c_out = <<>>

Classify ==
    /\ r_out = <<>>
    /\ r_out' = <<router_node([DefaultState EXCEPT
                                  !.messages = <<HumanMessage(RawText(r_text))>>])>>
    /\ UNCHANGED <<mainVars, r_text, c_cart, c_msg, c_out>>

SpecRouter == InitRouter /\ [][Classify]_vars

-----------------------------------------------------------------------------
(* update_cart_state on its own: applied, up to Applications times in      *)
(* sequence, to a cart and a last message drawn from the sets below.       *)

MaxCart == 2
Applications == 2

DupFree(cart) == \A j, k \in 1..Len(cart) : j # k => cart[j] # cart[k]

\* the carts the reducer keeps: sequences of product ids without repetition
Carts ==
    { cart \in UNION { [1..n -> Products] : n \in 0..MaxCart } : DupFree(cart) }

Dicts ==
    { [EmptyDict EXCEPT !.status = s, !.action = a, !.product_id = p] :
          s \in {"success", "error", NoKey},
          a \in {"add", "remove", "checkout", "none", "delete", NoKey},
          p \in Products \cup {None} }

Contents ==
    { Text("Found"), json_dumps_None, json_dumps_int }
    \cup { json_dumps(d) : d \in Dicts }

ReducerMessages ==
    { ToolMessage(c) : c \in Contents } \cup { AIMessage(c) : c \in Contents }

InitReducer ==
    /\ MainIdle
    /\ r_text = <<>> /\ r_out = <<>>
    /\ c_cart \in Carts
    /\ c_msg \in ReducerMessages
    /\ c_out = <<>>

\* the cart the next application starts from
CurrentCart == IF c_out = <<>> THEN c_cart ELSE Last(c_out).cart

Reduce ==
    /\ Len(c_out) < Applications
    /\ IF c_out = <<>> THEN TRUE ELSE Last(c_out).raised = NoKey
    /\ LET result == update_cart_state([DefaultState EXCEPT
                         !.messages = <<c_msg>>, !.user_cart = CurrentCart])
       IN  c_out' = Append(c_out,
                       [raised |-> result.raised, writes |-> result.writes,
                        cart |-> CartAfter(CurrentCart, result)])
    /\ UNCHANGED <<mainVars, r_text, r_out, c_cart, c_msg>>

SpecReducer == InitReducer /\ [][Reduce]_vars

-----------------------------------------------------------------------------
(* finalize_order on its own: called once with a cart, a stock table and   *)
(* a commit outcome drawn from the sets below; update_cart_state then      *)
(* reads the tool message it returned.                                     *)

InitCheckout ==
    /\ store = [t \in Threads |-> Checkpoint(DefaultState, "END")]
    /\ tasks = <<>>
    /\ stock \in [Products -> 0..MaxStock]
    /\ orders = <<>>
    /\ threadRows = [t \in Threads |-> 0]
    /\ llm_mode = "bounded"
    /\ r_text = <<>> /\ r_out = <<>>
    /\ c_cart \in Carts
    /\ c_msg = ToolMessage(Text(""))
    /\ c_out = <<>>

Checkout ==
    /\ c_msg = ToolMessage(Text(""))
    /\ \E db_commit \in CommitOutcomes :
        LET result == finalize_order(c_cart, "t1", stock, orders, db_commit)
        IN  /\ c_msg' = ToolMessage(result.content)
            /\ stock' = result.stock
            /\ orders' = result.orders
    /\ UNCHANGED <<store, tasks, threadRows, llm_mode, r_text, r_out, c_cart, c_out>>

UpdateCartAfterCheckout ==
    /\ c_msg # ToolMessage(Text(""))
    /\ Reduce

SpecCheckout == InitCheckout /\ [][Checkout \/ UpdateCartAfterCheckout]_vars

-----------------------------------------------------------------------------
(* Properties.                                                             *)

Running(i) == tasks[i].pc \notin {"queued", "done"}
\* where the i-th turn received is, "queued" before it is received
PcOf(i) == IF i \in TaskIds THEN tasks[i].pc ELSE "queued"
CartOf(t) == store[t].state.user_cart
HistoryOf(t) == store[t].state.messages

\* C1: when the model requests a tool on every invocation, one turn runs
\* the Decide -> tools -> update_cart cycle at most 5 times before it ends
\* with the fallback reply.
C1_LoopCappedAtFive ==
    \A i \in TaskIds :
        /\ tasks[i].tool_rounds <= 5
        /\ tasks[i].pc = "done" /\ tasks[i].tool_rounds = 5
               => tasks[i].reply = FallbackReply

\* C2: once requires_human is true for a thread, no step of the engine
\* makes it false again.
C2_RequiresHumanSticky ==
    [][\A t \in Threads :
          store[t].state.requires_human => store'[t].state.requires_human]_vars

\* C3: the persisted history of a thread never holds more than 10 messages.
C3_HistoryAtMostTen == \A t \in Threads : Len(HistoryOf(t)) <= 10

\* the ids of s that also occur in other, in the order of s
Keep(s, other) ==
    LET F[k \in 0..Len(s)] ==
            IF k = 0 THEN <<>>
            ELSE IF InCart(s[k], other) THEN Append(F[k - 1], s[k]) ELSE F[k - 1]
    IN  F[Len(s)]

\* the ids that stay keep their relative order, and new ids come after them
OrderKept(old, new) ==
    /\ Keep(old, new) = Keep(new, old)
    /\ \A j, k \in 1..Len(new) :
           j < k /\ InCart(new[k], old) => InCart(new[j], old)

\* C4: in every reachable state every cart, persisted or in a running turn,
\* holds no product id twice, and every step keeps the ids that stay in a
\* persisted cart in their order and puts new ids after them.
C4_CartDistinctInInsertionOrder ==
    /\ [](/\ \A t \in Threads : DupFree(CartOf(t))
          /\ \A i \in TaskIds : DupFree(tasks[i].state.user_cart))
    /\ [][\A t \in Threads : OrderKept(CartOf(t), CartOf(t)')]_vars

\* two ids added in the order 2, 1 and both still in the cart
C4_Witness == \E t \in Threads : CartOf(t) = <<2, 1>>

HumanCount(messages) ==
    Cardinality({ k \in 1..Len(messages) : messages[k].type = "human" })

\* C5: turns never interleave: at most one turn is between its load and its
\* last save, what a running turn holds is what is persisted for its thread,
\* and the persisted history holds the user message of every turn whose
\* graph was started on the thread.
C5_TurnsSerialized ==
    /\ Cardinality({ i \in TaskIds : Running(i) }) <= 1
    /\ \A i \in TaskIds :
           Running(i) => tasks[i].state = store[tasks[i].thread_id].state
    /\ \A t \in Threads :
           HumanCount(HistoryOf(t)) =
               Cardinality({ i \in TaskIds :
                                 /\ tasks[i].thread_id = t
                                 /\ tasks[i].pc # "queued"
                                 /\ ~tasks[i].raised })

\* two turns of one thread were both queued at once, both have run, the
\* first changed the cart and the second ended normally
C5_Witness ==
    /\ Len(tasks) = 2
    /\ tasks[1].thread_id = tasks[2].thread_id
    /\ tasks[1].pc = "done" /\ tasks[2].pc = "done"
    /\ tasks[1].tool_rounds > 0 /\ tasks[2].failed_at = NoKey
    /\ CartOf(tasks[1].thread_id) # <<>>
    /\ HumanCount(HistoryOf(tasks[1].thread_id)) = 2

\* a trigger of the list occurs in the text, letter case ignored
Mentions(triggers, text) ==
    \E n \in 1..Len(triggers) :
        \E k \in 0..(Len(text) - Len(triggers[n])) :
            \A j \in 1..Len(triggers[n]) : LowerChar(text[k + j]) = triggers[n][j]

Count(pid, cart) == Cardinality({ k \in 1..Len(cart) : cart[k] = pid })

SuccessEnvelope(msg) ==
    /\ msg.type = "tool"
    /\ msg.content.fmt = "object"
    /\ msg.content.obj.status = "success"

\* C8: a successful add result applied twice in sequence gives the cart of
\* applying it once, with the product id in it exactly once.
C8_AddIdempotent ==
    Len(c_out) >= 2 /\ SuccessEnvelope(c_msg) /\ c_msg.content.obj.action = "add"
        => /\ c_out[2].cart = c_out[1].cart
           /\ Count(c_msg.content.obj.product_id, c_out[2].cart) = 1

\* an add of an id the cart did not hold, applied twice
C8_Witness ==
    /\ Len(c_out) = 2
    /\ SuccessEnvelope(c_msg) /\ c_msg.content.obj.action = "add"
    /\ c_msg.content.obj.product_id \in Products
    /\ c_cart # <<>>
    /\ ~ InCart(c_msg.content.obj.product_id, c_cart)

\* C9: for a success result, add gives the cart with the id appended when
\* absent and the same cart otherwise, remove gives the cart without the
\* id, the rest in order, and checkout gives the empty cart.
C9_ReducerRules ==
    Len(c_out) >= 1 /\ SuccessEnvelope(c_msg) =>
        LET pid == c_msg.content.obj.product_id
            action == c_msg.content.obj.action
            after == c_out[1].cart
        IN  /\ c_out[1].raised = NoKey
            /\ action = "add" /\ Count(pid, c_cart) = 0
                   => after = c_cart \o <<pid>>
            /\ action = "add" /\ Count(pid, c_cart) > 0 => after = c_cart
            /\ action = "remove"
                   => /\ Count(pid, after) = 0
                      /\ after = Keep(c_cart, after)
                      /\ Len(after) = Len(c_cart) - Count(pid, c_cart)
            /\ action = "checkout" => after = <<>>

\* a remove of the first of two ids, applied
C9_Witness ==
    /\ Len(c_out) >= 1
    /\ SuccessEnvelope(c_msg) /\ c_msg.content.obj.action = "remove"
    /\ Len(c_cart) = 2 /\ c_cart[1] = c_msg.content.obj.product_id

\* a success envelope that names add or remove with a product id, or checkout
WellFormedEnvelope(msg) ==
    /\ SuccessEnvelope(msg)
    /\ \/ msg.content.obj.action \in {"add", "remove"}
          /\ msg.content.obj.product_id # None
       \/ msg.content.obj.action = "checkout"

\* C10: update_cart_state never raises, and a last message that is not a
\* well-formed success envelope leaves the cart as it was.
C10_ReducerNeverFails ==
    \A k \in 1..Len(c_out) :
        /\ c_out[k].raised = NoKey
        /\ ~ WellFormedEnvelope(c_msg) => c_out[k].cart = c_cart
\* C11: checking out a cart [A, B] where A is in stock and B is out of
\* stock when the transaction commits records one order, for A; decrements
\* the stock of A only; lists B as failed for being out of stock; totals
\* the price of A alone; and returns a success checkout envelope, so the
\* update_cart step that follows empties the cart.
C11_PartialCheckout ==
    /\ [][(/\ c_msg = ToolMessage(Text(""))
            /\ c_msg' # ToolMessage(Text(""))
            /\ c_msg'.content # Text("Checkout failed")
            /\ Len(c_cart) = 2
            /\ stock[c_cart[1]] >= 1
            /\ stock[c_cart[2]] = 0)
           => LET A == c_cart[1]
                  B == c_cart[2]
                  data == c_msg'.content.obj
              IN  /\ orders' = Append(orders, [thread_id |-> "t1", product_id |-> A,
                                               total_price |-> Price[A]])
                  /\ stock' = [stock EXCEPT ![A] = @ - 1]
                  /\ c_msg'.content.fmt = "object"
                  /\ data.status = "success" /\ data.action = "checkout"
                  /\ data.receipt.lines = <<A>>
                  /\ data.receipt.failed = <<[product_id |-> B, why |-> "out of stock"]>>
                  /\ data.receipt.total = Price[A]]_vars
    /\ []((/\ c_msg.content.fmt = "object"
            /\ c_msg.content.obj.action = "checkout"
            /\ c_out # <<>>)
           => c_out[1].cart = <<>>)

C11_Witness ==
    /\ Len(c_cart) = 2
    /\ orders = <<[thread_id |-> "t1", product_id |-> c_cart[1],
                   total_price |-> Price[c_cart[1]]]>>
    /\ c_msg.content.obj.receipt.failed =
           <<[product_id |-> c_cart[2], why |-> "out of stock"]>>
    /\ c_out # <<>>
    /\ c_out[1].cart = <<>>

\* C12: when the checkout transaction fails, no stock decrement and no
\* order insert of that call remains in the database, and the update_cart
\* step that follows leaves the cart exactly as it was.
C12_FailedCheckoutRollsBack ==
    /\ [][(/\ c_msg = ToolMessage(Text(""))
            /\ c_msg'.content = Text("Checkout failed"))
           => (stock' = stock /\ orders' = orders)]_vars
    /\ [](c_msg.content = Text("Checkout failed")
           => \A k \in 1..Len(c_out) :
                 c_out[k].cart = c_cart /\ c_out[k].raised = NoKey)

C12_Witness ==
    /\ c_msg.content = Text("Checkout failed")
    /\ Len(c_cart) = 2
    /\ stock[c_cart[1]] >= 1
    /\ c_out # <<>>
    /\ c_out[1].cart = c_cart

\* C13: the state a turn starts from is the state persisted for its thread
\* when the previous turn ended, with the new user message appended and
\* nothing else changed; and what is persisted for a thread between turns
\* is the final state of a turn of that thread.
C13_PersistenceRoundTrip ==
    /\ [][\A i \in TaskIds :
             (tasks[i].pc = "queued" /\ tasks'[i].pc = "router_node")
             => tasks'[i].state =
                   [store[tasks[i].thread_id].state EXCEPT !.messages =
                       @ \o <<HumanMessage(Text(tasks[i].text))>>]]_vars
    /\ [](\A t \in Threads :
             (EventLoopFree /\ \E i \in TaskIds :
                                 tasks[i].thread_id = t /\ tasks[i].pc = "done")
             => \E i \in TaskIds : /\ tasks[i].thread_id = t
                                   /\ tasks[i].pc = "done"
                                   /\ store[t].state = tasks[i].state)

C13_Witness ==
    \E i \in TaskIds :
        /\ tasks[i].pc = "router_node"
        /\ tasks[i].step = 0
        /\ tasks[i].state.user_cart # <<>>
        /\ tasks[i].state.current_intent # NoKey
        /\ Len(tasks[i].state.messages) > 1

\* C14: a turn never waits for the model without end: a turn that has
\* reached the model call ends, by an answer or by the fallback reply,
\* whether or not the model's service ever responds.
C14_TurnEndsDespiteModel ==
    \A i \in 1..MaxTurns : [](PcOf(i) = "agent_node" => <>(PcOf(i) = "done"))

\* a step of the i-th turn in which its model call fails
ModelCallFails(i) ==
    /\ tasks[i].pc = "agent_node"
    /\ tasks'[i].failed_at = "agent_node"

\* C15: when the model call of a turn fails, run_agent returns the fixed
\* fallback reply and the persisted state is the one the last completed
\* node left: the failing step changes neither cart nor intent nor
\* requires_human nor history, and nothing the turn did before it is undone.
C15_FailureKeepsLastCompletedState ==
    [][\A i \in TaskIds :
          ModelCallFails(i)
          => /\ tasks'[i].pc = "done"
             /\ tasks'[i].reply = FallbackReply
             /\ store' = store
             /\ store[tasks[i].thread_id].state = tasks[i].state
             /\ tasks'[i].state = tasks[i].state]_vars

C15_Witness ==
    /\ Len(tasks) = 1
    /\ tasks[1].pc = "done"
    /\ tasks[1].failed_at = "agent_node"
    /\ tasks[1].reply = FallbackReply
    /\ tasks[1].tool_rounds >= 1
    /\ CartOf(tasks[1].thread_id) # <<>>

\* C16: when the model call of a turn fails, the fallback reply that is
\* returned is appended to the persisted history as an assistant message.
C16_FallbackAppendedToHistory ==
    [][\A i \in TaskIds :
          ModelCallFails(i)
          => HistoryOf(tasks[i].thread_id)' =
                Append(HistoryOf(tasks[i].thread_id), AIMessage(FallbackReply))]_vars

\* a tool request that cannot be carried out: a tool that does not exist,
\* manage_cart on a product that does not exist, adding a product that is
\* out of stock, or an action other than add and remove
CannotBeCarriedOut(call) ==
    \/ call.name \notin {"search_inventory", "manage_cart", "finalize_order",
                         "get_cart_summary"}
    \/ /\ call.name = "manage_cart"
       /\ \/ call.product_id \notin Products
          \/ call.action \notin {"add", "remove"}
          \/ call.action = "add" /\ stock[call.product_id] = 0

\* a tool result that reports an error, with or without a status key
ErrorResult(content) ==
    \/ content.fmt = "text"
    \/ /\ content.fmt = "object"
       /\ content.obj.status = "error" \/ content.obj.error # <<>>

\* C17: a tool request that cannot be carried out ends in an error result
\* in the history, raises no fault, leaves the cart unchanged, and the turn
\* goes on to the next model call.
C17_FailedToolRequestIsNotAFault ==
    [][\A i \in TaskIds :
          LET messages == tasks[i].state.messages
              calls == messages[Len(messages) - 1].tool_calls
          IN  (/\ tasks[i].pc = "update_cart"
               /\ tasks[i].step < RecursionLimit
               /\ tasks'[i] # tasks[i]
               /\ Len(calls) = 1
               /\ CannotBeCarriedOut(calls[1]))
              => /\ ErrorResult(Last(messages).content)
                 /\ tasks'[i].pc = "agent_node"
                 /\ tasks'[i].failed_at = NoKey
                 /\ tasks'[i].state.user_cart = tasks[i].state.user_cart]_vars

\* the envelope of a cart tool's result: a JSON object with a status, an
\* action and a message
StructuredEnvelope(content) ==
    /\ content.fmt = "object"
    /\ content.obj.status \in {"success", "error"}
    /\ content.obj.action \in {"add", "remove", "checkout", "none"}
    /\ content.obj.message # <<>>

\* C18: every result of manage_cart and of finalize_order in a thread's
\* history, whether the call succeeded or failed, is a structured envelope
\* with status success or error, an action among add, remove, checkout and
\* none, and a message.
C18_EveryResultIsAnEnvelope ==
    \A t \in Threads :
        \A k \in 2..Len(HistoryOf(t)) :
            (/\ HistoryOf(t)[k].type = "tool"
             /\ HistoryOf(t)[k - 1].type = "ai"
             /\ Len(HistoryOf(t)[k - 1].tool_calls) = 1
             /\ HistoryOf(t)[k - 1].tool_calls[1].name
                    \in {"manage_cart", "finalize_order"})
            => StructuredEnvelope(HistoryOf(t)[k].content)

\* a turn whose message the router escalates
HandoffTurn(i) == AnyTrigger(human_triggers, lower(Chars(tasks[i].text)))

C20_ReplyIsLastAssistantMessage ==
    \A i \in TaskIds :
        LET last_message == Last(tasks[i].state.messages)
        IN  /\ tasks[i].pc = "END"
                  => /\ last_message.type = "ai"
                     /\ last_message.tool_calls = <<>>
                     /\ Last(HistoryOf(tasks[i].thread_id)) = last_message
            /\ (tasks[i].pc = "done" /\ tasks[i].failed_at = NoKey)
                  => /\ last_message.type = "ai"
                     /\ last_message.tool_calls = <<>>
                     /\ tasks[i].reply = last_message.content

C20_Witness ==
    \E i \in TaskIds :
        /\ tasks[i].pc = "done"
        /\ tasks[i].failed_at = NoKey
        /\ tasks[i].tool_rounds >= 1
        /\ tasks[i].reply = Last(HistoryOf(tasks[i].thread_id)).content
        /\ tasks[i].reply = Text("ok")

\* C21: run_agent ends every inbound message with a reply string and never
\* with an exception to its caller: a turn that failed anywhere, the
\* thread-record upsert included, has returned the fallback reply.
C21_AlwaysOneReply ==
    \A i \in TaskIds :
        tasks[i].pc = "done"
        => /\ ~tasks[i].raised
           /\ tasks[i].failed_at # NoKey => tasks[i].reply = FallbackReply

\* C22: a step of a turn on one thread changes neither what is persisted
\* for any other thread (history, cart, current_intent, requires_human)
\* nor what any other turn holds.
C22_ThreadsIsolated ==
    [][\A i \in TaskIds :
          tasks'[i] # tasks[i]
          => /\ \A u \in Threads \ {tasks[i].thread_id} : store'[u] = store[u]
             /\ \A j \in TaskIds \ {i} : tasks'[j] = tasks[j]]_vars

\* turns on both threads have ended, each with a cart of its own
C22_Witness ==
    /\ Len(tasks) = 2
    /\ tasks[1].thread_id # tasks[2].thread_id
    /\ tasks[1].pc = "done" /\ tasks[2].pc = "done"
    /\ CartOf(tasks[1].thread_id) # <<>>
    /\ CartOf(tasks[2].thread_id) # <<>>
    /\ CartOf(tasks[1].thread_id) # CartOf(tasks[2].thread_id)
    /\ store[tasks[1].thread_id].state.current_intent
          # store[tasks[2].thread_id].state.current_intent

\* C23: the tools step, manage_cart included, never changes the persisted
\* cart: a thread's cart changes only in an update_cart step of a turn of
\* that thread, and then to what the reducer makes of the turn's state.
C23_CartChangesOnlyInUpdateCart ==
    [][\A t \in Threads :
          CartOf(t)' # CartOf(t)
          => \E i \in TaskIds :
                /\ tasks[i].thread_id = t
                /\ tasks[i].pc = "update_cart"
                /\ tasks'[i].pc = "agent_node"
                /\ CartOf(t)' = CartAfter(CartOf(t), update_cart_state(tasks[i].state))]_vars

\* manage_cart has answered a successful add and the cart does not hold the
\* product yet
C23_Witness ==
    \E i \in TaskIds :
        LET last_message == Last(tasks[i].state.messages)
        IN  /\ tasks[i].pc = "update_cart"
            /\ SuccessEnvelope(last_message)
            /\ last_message.content.obj.action = "add"
            /\ ~InCart(last_message.content.obj.product_id, CartOf(tasks[i].thread_id))

\* C24: product stock and order records change only in a tools step that
\* runs finalize_order: search_inventory, get_cart_summary and manage_cart
\* never write them.
C24_OnlyFinalizeOrderWrites ==
    [][(stock' # stock \/ orders' # orders)
       => \E i \in TaskIds :
             /\ tasks[i].pc = "tools_node"
             /\ tasks'[i].pc = "update_cart"
             /\ \E k \in 1..Len(Last(tasks[i].state.messages).tool_calls) :
                   Last(tasks[i].state.messages).tool_calls[k].name = "finalize_order"]_vars

\* a product was added with manage_cart and bought with finalize_order: one
\* order, one unit less of that product, every other stock as seeded
C24_Witness ==
    /\ Len(orders) = 1
    /\ stock[orders[1].product_id] = InitStock[orders[1].product_id] - 1
    /\ \A p \in Products \ {orders[1].product_id} : stock[p] = InitStock[p]
    /\ \E t \in Threads :
          \E k \in 1..Len(HistoryOf(t)) :
              /\ SuccessEnvelope(HistoryOf(t)[k])
              /\ HistoryOf(t)[k].content.obj.action = "add"

\* C25: whenever a turn stands before a node, or at END, what is persisted
\* for its thread is the full state all completed nodes have produced and
\* the node to run next; and when a turn fails at a node, the persisted
\* state still holds the effects of every node completed before it.
C25_SavedAfterEveryNode ==
    /\ [](\A i \in TaskIds :
             Running(i) => store[tasks[i].thread_id] = Checkpoint(tasks[i].state, tasks[i].pc))
    /\ [][\A i \in TaskIds :
             (tasks[i].pc \in Nodes /\ tasks'[i].pc = "done")
             => /\ store'[tasks[i].thread_id].state = tasks[i].state
                /\ store'[tasks[i].thread_id].next = tasks[i].pc]_vars

\* the first turn added a product and then failed in update_cart: the cart
\* update made before the failure is persisted
C25_Witness ==
    /\ Len(tasks) = 1
    /\ tasks[1].pc = "done"
    /\ tasks[1].failed_at = "update_cart"
    /\ tasks[1].tool_rounds = 2
    /\ CartOf(tasks[1].thread_id) # <<>>

\* a turn of the thread stopped in the middle: the checkpoint names a node
\* still to run and no turn of the thread is running
Interrupted(t) ==
    /\ store[t].next \in Nodes
    /\ \A i \in TaskIds : tasks[i].thread_id = t => ~Running(i)

\* C26: after a turn of a thread was interrupted in the middle, the next
\* processing of that thread runs the node the checkpoint names, on the
\* state it holds, and does not start a turn over at the router.
C26_ResumesFromLastCompletedNode ==
    [][\A t \in Threads :
          (Interrupted(t) /\ store'[t] # store[t])
          => /\ store'[t].next # "router_node"
             /\ HumanCount(HistoryOf(t)') = HumanCount(HistoryOf(t))]_vars

\* C27: when a turn has reached END, current_intent is one of browsing,
\* checkout, support and greeting and is what router_node makes of the
\* turn's message; and no step of agent_node, the tools step, update_cart
\* or handoff_node changes current_intent or requires_human, in the turn's
\* state or as persisted.
C27_IntentSetOnlyByRouter ==
    /\ [](\A i \in TaskIds :
             (tasks[i].pc = "END" \/ (tasks[i].pc = "done" /\ tasks[i].failed_at = NoKey))
             => /\ tasks[i].state.current_intent
                      \in {"browsing", "checkout", "support", "greeting"}
                /\ tasks[i].state.current_intent =
                      router_node([DefaultState EXCEPT !.messages =
                          <<HumanMessage(Text(tasks[i].text))>>]).current_intent)
    /\ [][\A i \in TaskIds :
             LET t == tasks[i].thread_id
             IN  (/\ tasks[i].pc \in {"agent_node", "tools_node", "update_cart",
                                       "handoff_node"}
                  /\ tasks'[i] # tasks[i])
                 => /\ tasks'[i].state.current_intent = tasks[i].state.current_intent
                    /\ tasks'[i].state.requires_human = tasks[i].state.requires_human
                    /\ store'[t].state.current_intent = store[t].state.current_intent
                    /\ store'[t].state.requires_human = store[t].state.requires_human]_vars

\* a checkout turn that ran tools ended on a thread whose turn before was
\* escalated
C27_Witness ==
    \E i \in TaskIds :
        /\ tasks[i].pc = "done"
        /\ tasks[i].failed_at = NoKey
        /\ tasks[i].tool_rounds >= 1
        /\ tasks[i].state.current_intent = "checkout"
        /\ \E k \in 1..Len(tasks[i].state.messages) :
              tasks[i].state.messages[k] = AIMessage(Text("handoff"))

\* the turn went through handoff_node
WentThroughHandoff(i) ==
    \/ tasks[i].pc = "handoff_node"
    \/ /\ tasks[i].pc \in {"END", "done"}
       /\ tasks[i].state.messages # <<>>
       /\ Last(tasks[i].state.messages) = AIMessage(Text("handoff"))

\* C28: the first node of every turn is the router; the node after the
\* router is handoff_node if requires_human is true and agent_node if it is
\* not; and a turn that goes through handoff_node never invokes the model.
C28_RoutingAfterRouter ==
    /\ [][\A i \in TaskIds :
             /\ (tasks[i].pc = "queued" /\ tasks'[i].pc # "queued" /\ ~tasks'[i].raised)
                   => tasks'[i].pc = "router_node"
             /\ (tasks[i].pc = "router_node" /\ tasks'[i] # tasks[i])
                   => /\ tasks'[i].pc \in {"handoff_node", "agent_node"}
                      /\ tasks'[i].pc = "handoff_node" <=> tasks'[i].state.requires_human]_vars
    /\ [](\A i \in TaskIds :
             /\ tasks[i].pc \in Nodes \ {"router_node"} => tasks[i].step >= 1
             /\ WentThroughHandoff(i) => tasks[i].agent_calls = 0)

\* on one thread a turn went to the model and a turn went to handoff
C28_Witness ==
    /\ Len(tasks) = 2
    /\ tasks[1].thread_id = tasks[2].thread_id
    /\ tasks[1].pc = "done" /\ tasks[2].pc = "done"
    /\ tasks[1].agent_calls >= 1 /\ ~tasks[1].state.requires_human
    /\ WentThroughHandoff(2) /\ tasks[2].state.requires_human

\* C29: when agent_node has run, the turn goes to the tools step if the
\* message it produced carries at least one tool request and to END if it
\* carries none; when the tools step has run, update_cart is next, whatever
\* the tools were; when update_cart has run, agent_node is next.
C29_EdgesOfTheToolLoop ==
    [][\A i \in TaskIds :
          (tasks'[i] # tasks[i] /\ tasks'[i].failed_at = NoKey)
          => /\ tasks[i].pc = "agent_node"
                   => /\ tasks'[i].pc \in {"tools_node", "END"}
                      /\ tasks'[i].pc = "tools_node"
                            <=> Len(Last(tasks'[i].state.messages).tool_calls) >= 1
             /\ tasks[i].pc = "tools_node" => tasks'[i].pc = "update_cart"
             /\ tasks[i].pc = "update_cart" => tasks'[i].pc = "agent_node"]_vars

\* a turn asked for search_inventory, which has no cart effect, went
\* through update_cart, back to the model, and ended
C29_Witness ==
    \E i \in TaskIds :
        /\ tasks[i].pc = "done"
        /\ tasks[i].failed_at = NoKey
        /\ tasks[i].agent_calls = 2
        /\ tasks[i].tool_rounds = 1
        /\ tasks[i].step = 5
        /\ \E k \in 1..Len(tasks[i].state.messages) :
              tasks[i].state.messages[k] = ToolMessage(Text("Found"))

\* C30: an update_cart step changes the cart as the reducer does on the
\* last message of the history alone, whatever stands before it: of the
\* results of several tool requests of one assistant message, only the
\* last can change the cart.
C30_OnlyLastResultApplied ==
    [][\A i \in TaskIds :
          (tasks[i].pc = "update_cart" /\ tasks'[i].pc = "agent_node")
          => LET cart == tasks[i].state.user_cart
                 alone == [DefaultState EXCEPT
                              !.messages = <<Last(tasks[i].state.messages)>>,
                              !.user_cart = cart]
             IN  tasks'[i].state.user_cart = CartAfter(cart, update_cart_state(alone))]_vars

\* one assistant message asked to add product 1 and product 2, both adds
\* succeeded, and the cart holds product 2 only
C30_Witness ==
    \E i \in TaskIds :
        LET messages == tasks[i].state.messages
            n == Len(messages)
        IN  /\ tasks[i].pc = "agent_node"
            /\ n >= 3
            /\ Len(messages[n - 2].tool_calls) = 2
            /\ SuccessEnvelope(messages[n - 1])
            /\ messages[n - 1].content.obj.product_id = 1
            /\ SuccessEnvelope(messages[n])
            /\ messages[n].content.obj.product_id = 2
            /\ tasks[i].state.user_cart = <<2>>

\* C31: whenever agent_node is about to invoke the model, the cart its
\* prompt shows is the thread's persisted cart of that moment, changes made
\* by update_cart earlier in the same turn included (an empty cart is shown
\* by no cart line), and the history it shows is the persisted history.
C31_PromptShowsCurrentCart ==
    \A i \in TaskIds :
        tasks[i].pc = "agent_node"
        => LET prompt == Prompt(tasks[i].state)
               t == tasks[i].thread_id
           IN  /\ prompt.cart_context =
                     IF CartOf(t) = <<>> THEN <<>> ELSE <<CartOf(t)>>
               /\ prompt.messages = HistoryOf(t)

\* the second invocation of a thread's first turn, after update_cart put a
\* product into the cart
C31_Witness ==
    /\ Len(tasks) = 1
    /\ tasks[1].pc = "agent_node"
    /\ tasks[1].agent_calls = 1
    /\ CartOf(tasks[1].thread_id) # <<>>
    /\ Prompt(tasks[1].state).cart_context = <<CartOf(tasks[1].thread_id)>>

IsPrefix(before, after) ==
    /\ Len(before) <= Len(after)
    /\ SubSeq(after, 1, Len(before)) = before

\* the messages a step added at the end
Added(before, after) == SubSeq(after, Len(before) + 1, Len(after))

\* C32: every step leaves the messages already in a history in place and
\* unaltered and adds its own at the end: the new user message alone when
\* a turn starts, one assistant message in agent_node and in handoff_node,
\* one tool message per tool request, in request order, in the tools step,
\* and nothing in router_node and update_cart.
C32_HistoryAppendOnly ==
    [][/\ \A t \in Threads : IsPrefix(HistoryOf(t), HistoryOf(t)')
       /\ \A i \in TaskIds :
             LET before == store[tasks[i].thread_id].state.messages
                 new == Added(before, tasks'[i].state.messages)
             IN  (tasks'[i].pc # tasks[i].pc /\ tasks'[i].failed_at = NoKey
                     /\ tasks[i].pc # "END")
                 => /\ IsPrefix(before, tasks'[i].state.messages)
                    /\ tasks[i].pc = "queued"
                          => new = <<HumanMessage(Text(tasks[i].text))>>
                    /\ tasks[i].pc \in {"router_node", "update_cart"} => new = <<>>
                    /\ tasks[i].pc \in {"agent_node", "handoff_node"}
                          => Len(new) = 1 /\ new[1].type = "ai"
                    /\ tasks[i].pc = "tools_node"
                          => /\ Len(new) = Len(Last(before).tool_calls)
                             /\ \A k \in 1..Len(new) : new[k].type = "tool"]_vars

\* a history of two turns: user, tool request, result, answer, user, answer
C32_Witness ==
    \E t \in Threads :
        /\ Len(HistoryOf(t)) = 6
        /\ HistoryOf(t)[1].type = "human"
        /\ Len(HistoryOf(t)[2].tool_calls) = 1
        /\ HistoryOf(t)[3].type = "tool"
        /\ HistoryOf(t)[4] = AIMessage(Text("ok"))
        /\ HistoryOf(t)[5].type = "human"
        /\ HistoryOf(t)[6].type = "ai"

\* the order records of a product
OrdersFor(p) == Cardinality({ k \in 1..Len(orders) : orders[k].product_id = p })

\* the checkout receipts in a thread's history
Receipts(t) ==
    { HistoryOf(t)[k].content.obj.receipt :
          k \in { j \in 1..Len(HistoryOf(t)) :
                      /\ SuccessEnvelope(HistoryOf(t)[j])
                      /\ HistoryOf(t)[j].content.obj.action = "checkout" } }

\* C33: whatever the order in which checkout turns of different threads
\* reach the same product, the orders recorded for a product never exceed
\* the stock it had before them: finalize_order tests the stock again
\* before it decrements.
C33_NoOverselling ==
    \A p \in Products : OrdersFor(p) <= InitStock[p]

\* two threads checked out product 1, of which there was one: one got it,
\* the other was told it is out of stock
C33_Witness ==
    \E t, u \in Threads :
        /\ t # u
        /\ \E r \in Receipts(t) : r.lines = <<1>>
        /\ \E r \in Receipts(u) :
              r.lines = <<>> /\ r.failed[1] = [product_id |-> 1, why |-> "out of stock"]
        /\ OrdersFor(1) = 1

\* C34: for every product the stock is never negative and the units taken
\* from the seeded stock are as many as the order records of the product,
\* also for a checkout that names the same id more than once.
C34_StockMatchesOrders ==
    \A p \in Products :
        /\ stock[p] >= 0
        /\ InitStock[p] - stock[p] = OrdersFor(p)

\* a checkout named product 1 twice when one was left: one order, one
\* failed entry
C34_Witness ==
    /\ \E t \in Threads :
          \E r \in Receipts(t) :
              /\ r.lines = <<1>>
              /\ r.failed = <<[product_id |-> 1, why |-> "out of stock"]>>
    /\ stock[1] = 0
    /\ OrdersFor(1) = 1

\* the ids a receipt accounts for, as ordered or as failed
AccountedFor(receipt) ==
    { receipt.lines[k] : k \in 1..Len(receipt.lines) }
    \cup { receipt.failed[k].product_id : k \in 1..Len(receipt.failed) }

\* C35: the ids finalize_order processes are the ids of the thread's
\* persisted cart of that moment, and every id a checkout removes from the
\* persisted cart is in the receipt, as ordered or as failed.
C35_CheckoutCoversTheCart ==
    [][\A i \in TaskIds :
          LET t == tasks[i].thread_id
              last_message == Last(tasks[i].state.messages)
          IN  /\ (/\ tasks[i].pc = "tools_node"
                   /\ tasks'[i].pc = "update_cart"
                   /\ Len(last_message.tool_calls) = 1
                   /\ last_message.tool_calls[1].name = "finalize_order")
                  => last_message.tool_calls[1].cart_product_ids = CartOf(t)
              /\ (/\ tasks[i].pc = "update_cart"
                   /\ tasks'[i].pc = "agent_node"
                   /\ SuccessEnvelope(last_message)
                   /\ last_message.content.obj.action = "checkout")
                  => \A k \in 1..Len(CartOf(t)) :
                        \/ InCart(CartOf(t)[k], CartOf(t)')
                        \/ CartOf(t)[k] \in AccountedFor(last_message.content.obj.receipt)]_vars

Unavailable(product_id) == product_id \notin Products \/ stock[product_id] < 1

\* C36: a finalize_order whose ids are all unavailable (not found, or stock
\* below 1) and whose commit succeeds records no order and changes no
\* stock, yet returns a success checkout envelope, with total 0 and every
\* id listed as failed; update_cart empties the cart on every success
\* checkout envelope and leaves it alone after the texts finalize_order
\* returns for an empty id list and for a raised fault.
C36_NothingAvailableStillClearsCart ==
    [][\A i \in TaskIds :
          LET last_message == Last(tasks[i].state.messages)
              call == last_message.tool_calls[1]
              result == Last(tasks'[i].state.messages).content
          IN  /\ (/\ tasks[i].pc = "tools_node"
                   /\ tasks'[i].pc = "update_cart"
                   /\ Len(last_message.tool_calls) = 1
                   /\ call.name = "finalize_order"
                   /\ call.cart_product_ids # <<>>
                   /\ \A k \in 1..Len(call.cart_product_ids) :
                         Unavailable(call.cart_product_ids[k])
                   /\ result # Text("Checkout failed"))
                  => /\ stock' = stock /\ orders' = orders
                     /\ result.fmt = "object"
                     /\ result.obj.status = "success"
                     /\ result.obj.action = "checkout"
                     /\ result.obj.receipt.total = 0
                     /\ result.obj.receipt.lines = <<>>
                     /\ Len(result.obj.receipt.failed) = Len(call.cart_product_ids)
              /\ (tasks[i].pc = "update_cart" /\ tasks'[i].pc = "agent_node")
                  => /\ (/\ SuccessEnvelope(last_message)
                          /\ last_message.content.obj.action = "checkout")
                         => tasks'[i].state.user_cart = <<>>
                     /\ last_message.content \in {Text("Your cart is empty"),
                                                   Text("Checkout failed")}
                         => tasks'[i].state.user_cart = tasks[i].state.user_cart]_vars

\* a cart that held a product is empty after a checkout that ordered
\* nothing
C36_Witness ==
    \E i \in TaskIds :
        LET messages == tasks[i].state.messages
            n == Len(messages)
        IN  /\ tasks[i].pc = "agent_node"
            /\ n >= 5
            /\ SuccessEnvelope(messages[n - 2])
            /\ messages[n - 2].content.obj.action = "add"
            /\ SuccessEnvelope(messages[n])
            /\ messages[n].content.obj.action = "checkout"
            /\ messages[n].content.obj.receipt.total = 0
            /\ Len(messages[n].content.obj.receipt.failed) = 2
            /\ tasks[i].state.user_cart = <<>>
            /\ orders = <<>>

\* every assistant message with tool requests is followed at once by one
\* tool message per request
RequestsAnswered(messages) ==
    \A k \in 1..Len(messages) :
        LET n == Len(messages[k].tool_calls)
        IN  (messages[k].type = "ai" /\ n > 0)
            => /\ k + n <= Len(messages)
               /\ \A j \in 1..n : messages[k + j].type = "tool"

\* C37: when no turn of a thread is running, whether its turns ended with
\* an answer, with the fallback after a failure, or with the fallback after
\* the loop was cut off, every assistant message with tool requests in the
\* persisted history is followed by its tool-result messages.
C37_NoUnansweredToolRequest ==
    \A t \in Threads :
        (\A i \in TaskIds : tasks[i].thread_id = t => ~Running(i))
        => RequestsAnswered(HistoryOf(t))

\* a turn was cut off at the recursion limit, after eight tool rounds
C37_Witness ==
    \E i \in TaskIds :
        /\ tasks[i].pc = "done"
        /\ tasks[i].step = RecursionLimit
        /\ tasks[i].reply = FallbackReply
        /\ tasks[i].tool_rounds = 8
        /\ Last(HistoryOf(tasks[i].thread_id)).type = "tool"

\* a tool message that carries the successful add of product pid
AddResult(message, pid) ==
    /\ SuccessEnvelope(message)
    /\ message.content.obj.action = "add"
    /\ message.content.obj.product_id = pid

\* C38: an id enters a thread's cart only in an update_cart step whose last
\* message is the successful manage_cart add result of that id; every such
\* result is produced by a tools step for an existing product whose stock
\* is above 0 at that moment; so every id in a cart is an existing product.
C38_CartEntersThroughAddResult ==
    /\ [][\A t \in Threads : \A pid \in Products \cup MissingProduct :
              (~InCart(pid, CartOf(t)) /\ InCart(pid, CartOf(t)'))
              => \E i \in TaskIds :
                    /\ tasks[i].thread_id = t
                    /\ tasks[i].pc = "update_cart"
                    /\ AddResult(Last(HistoryOf(t)), pid)]_vars
    /\ [][\A t \in Threads :
              LET new == Added(HistoryOf(t), HistoryOf(t)')
              IN  \A k \in 1..Len(new) : \A pid \in Products \cup MissingProduct :
                      AddResult(new[k], pid)
                      => /\ \E i \in TaskIds : /\ tasks[i].thread_id = t
                                                /\ tasks[i].pc = "tools_node"
                         /\ pid \in Products
                         /\ stock[pid] > 0]_vars
    /\ [](\A t \in Threads : \A k \in 1..Len(CartOf(t)) : CartOf(t)[k] \in Products)

\* a cart holds a product whose add result is in the history, while an add
\* of the product seeded out of stock was answered with an error
C38_Witness ==
    \E t \in Threads :
        /\ CartOf(t) # <<>>
        /\ \E k \in 1..Len(HistoryOf(t)) : AddResult(HistoryOf(t)[k], CartOf(t)[1])
        /\ \E k \in 2..Len(HistoryOf(t)) :
               /\ HistoryOf(t)[k].type = "tool"
               /\ HistoryOf(t)[k].content.obj.error = Chars("out of stock")

\* the run_agent calls of thread t whose upsert_thread has returned
Upserted(t) ==
    {i \in TaskIds : /\ tasks[i].thread_id = t
                     /\ tasks[i].pc # "queued"
                     /\ ~tasks[i].raised}

\* C39: a thread_id has one Thread record as soon as one of its run_agent
\* calls is past upsert_thread and none before, never more than one, also
\* when two first messages of the thread were received before either was
\* handled: the first call inserts the record, later calls leave the count.
C39_OneThreadRecord ==
    /\ [](\A t \in Threads :
              /\ threadRows[t] <= 1
              /\ threadRows[t] = 1 <=> Upserted(t) # {})
    /\ [][\A i \in TaskIds :
              (tasks[i].pc = "queued" /\ tasks'[i].pc = "router_node")
              => LET t == tasks[i].thread_id
                 IN  threadRows'[t] = IF Upserted(t) = {} THEN threadRows[t] + 1
                                      ELSE threadRows[t]]_vars

\* two first messages of a thread were waiting together (the later one was
\* handled while the earlier one still waits), and the thread has its one
\* record
C39_Witness ==
    \E i, j \in TaskIds :
        /\ j < i
        /\ tasks[i].thread_id = tasks[j].thread_id
        /\ tasks[j].pc = "queued"
        /\ tasks[i].pc = "done" /\ ~tasks[i].raised
        /\ threadRows[tasks[i].thread_id] = 1

====
